---- MODULE Spec2Model ----
(***************************************************************************)
(* Model of the message API of gotify/server (api/message.go): the paged   *)
(* list handlers, the create handler and the three delete handlers, run by *)
(* concurrent request workers against one message repository and one       *)
(* notifier.                                                               *)
(*                                                                         *)
(* A message is a record [id, appid, title]; the body, priority, extras    *)
(* and date of model.Message are carried through the handlers unchanged    *)
(* and are left out.  A text (a title, a query value, an application name) *)
(* is a sequence of characters, each a one-character string.               *)
(***************************************************************************)
EXTENDS Integers, Sequences, FiniteSets, TLC

\* ------------------------------------------------------------------------
\* Bounds of the model
\* ------------------------------------------------------------------------
\* Largest number of messages in the repository when Spec starts.
MaxInit == 1
\* Number of create/delete requests started in one behaviour of Spec.
MaxOps == 2
\* Largest message ID of a store of SpecPaging.
PageMaxID == 10
\* A store of SpecPaging holds some of the PageSpan newest IDs up to PageMaxID.
PageSpan == 5

\* ------------------------------------------------------------------------
\* Program constants
\* ------------------------------------------------------------------------
\* pagingParams.Limit `binding:"min=1,max=200"`, withPaging's default
MinLimit == 1
MaxLimit == 200
DefaultLimit == 100

\* ------------------------------------------------------------------------
\* Texts and numbers: strconv.Itoa / strconv.FormatUint / the query binding
\* ------------------------------------------------------------------------
DigitChars == <<"0", "1", "2", "3", "4", "5", "6", "7", "8", "9">>

Min(a, b) == IF a < b THEN a ELSE b

\* strconv.FormatUint(n, 10): the decimal digits of n >= 0, most significant first
RECURSIVE FormatUint(_)
FormatUint(n) ==
    IF n < 10 THEN <<DigitChars[n + 1]>>
    ELSE FormatUint(n \div 10) \o <<DigitChars[(n % 10) + 1]>>

\* strconv.Itoa(n)
Itoa(n) == IF n < 0 THEN <<"-">> \o FormatUint(0 - n) ELSE FormatUint(n)

DigitValue(c) == (CHOOSE i \in 1..10 : DigitChars[i] = c) - 1

IsDigits(s) ==
    /\ Len(s) > 0
    /\ \A i \in 1..Len(s) : \E k \in 1..10 : DigitChars[k] = s[i]

RECURSIVE DigitsValue(_)
DigitsValue(s) ==
    IF Len(s) = 0 THEN 0
    ELSE 10 * DigitsValue(SubSeq(s, 1, Len(s) - 1)) + DigitValue(s[Len(s)])

\* the digits of 2^64 - 1, of 2^63 - 1 and of 2^63: the largest uint, the
\* largest int and the magnitude of the smallest int (64-bit platform)
MaxUint64Digits ==
    <<"1", "8", "4", "4", "6", "7", "4", "4", "0", "7",
      "3", "7", "0", "9", "5", "5", "1", "6", "1", "5">>
MaxInt64Digits ==
    <<"9", "2", "2", "3", "3", "7", "2", "0", "3", "6",
      "8", "5", "4", "7", "7", "5", "8", "0", "7">>
MinInt64Digits ==
    <<"9", "2", "2", "3", "3", "7", "2", "0", "3", "6",
      "8", "5", "4", "7", "7", "5", "8", "0", "8">>

\* a digit string without its leading zeros
RECURSIVE StripZeros(_)
StripZeros(s) ==
    IF Len(s) > 1 /\ s[1] = "0" THEN StripZeros(Tail(s)) ELSE s

\* of two digit strings of one length, the first is not the larger number
RECURSIVE DigitsLE(_, _)
DigitsLE(a, b) ==
    IF Len(a) = 0 THEN TRUE
    ELSE IF DigitValue(a[1]) < DigitValue(b[1]) THEN TRUE
    ELSE IF DigitValue(a[1]) > DigitValue(b[1]) THEN FALSE
    ELSE DigitsLE(Tail(a), Tail(b))

\* the number a digit string reads as is at most the one max reads as
\* (the range check of strconv.ParseUint / strconv.ParseInt)
InRange(s, max) ==
    LET x == StripZeros(s)
    IN \/ Len(x) < Len(max)
       \/ Len(x) = Len(max) /\ DigitsLE(x, max)

\* The binding of a query value to a uint field, [ok, value]: gin's
\* setUintField reads an empty value as "0", then strconv.ParseUint(val, 10,
\* 64) takes digits only, up to 2^64 - 1.
ParseUint(s) ==
    LET val == IF s = <<>> THEN <<"0">> ELSE s
    IN IF IsDigits(val) /\ InRange(val, MaxUint64Digits)
       THEN [ok |-> TRUE, value |-> DigitsValue(val)]
       ELSE [ok |-> FALSE, value |-> 0]

\* The binding of a query value to an int field, [ok, value]: gin's
\* setIntField reads an empty value as "0", then strconv.ParseInt(val, 10,
\* 64) takes digits after an optional "+" or "-", from -2^63 to 2^63 - 1.
ParseInt(s) ==
    LET val == IF s = <<>> THEN <<"0">> ELSE s
        signed == val[1] \in {"+", "-"}
        neg == val[1] = "-"
        digits == IF signed THEN Tail(val) ELSE val
    IN IF /\ IsDigits(digits)
          /\ InRange(digits, IF neg THEN MinInt64Digits ELSE MaxInt64Digits)
       THEN [ok |-> TRUE,
             value |-> IF neg THEN 0 - DigitsValue(digits) ELSE DigitsValue(digits)]
       ELSE [ok |-> FALSE, value |-> 0]

\* The characters unicode.IsSpace holds of: '\t', '\n', '\v', '\f', '\r',
\* ' ', U+0085, U+00A0 and the characters of category Z.  A character that
\* a string of this module cannot hold is written as its code point.
SpaceChars ==
    { " ", "\t", "\n", "\f", "\r", "U+000B", "U+0085", "U+00A0", "U+1680",
      "U+2000", "U+2001", "U+2002", "U+2003", "U+2004", "U+2005", "U+2006",
      "U+2007", "U+2008", "U+2009", "U+200A", "U+2028", "U+2029", "U+202F",
      "U+205F", "U+3000" }

\* unicode.IsSpace
IsSpace(c) == c \in SpaceChars

\* strings.TrimSpace
RECURSIVE TrimSpace(_)
TrimSpace(s) ==
    IF Len(s) = 0 THEN s
    ELSE IF IsSpace(s[1]) THEN TrimSpace(Tail(s))
    ELSE IF IsSpace(s[Len(s)]) THEN TrimSpace(SubSeq(s, 1, Len(s) - 1))
    ELSE s

\* ------------------------------------------------------------------------
\* Users, applications, messages
\* ------------------------------------------------------------------------
Users == {1, 2}

\* The application table: applications 1 and 2 belong to user 1,
\* application 3 to user 2.  No handler of the message API changes it.
Applications ==
    { [id |-> 1, userID |-> 1, name |-> <<"A">>, token |-> "tokA"],
      [id |-> 2, userID |-> 1, name |-> <<"B">>, token |-> "tokB"],
      [id |-> 3, userID |-> 2, name |-> <<"C">>, token |-> "tokC"] }

\* A nil *model.Application / *model.Message
NilApp == [id |-> 0, userID |-> 0, name |-> <<>>, token |-> ""]
NilMsg == [id |-> 0, appid |-> 0, title |-> <<>>]

\* Application IDs a request may name: 4 names no application.
AppIDs == {1, 2, 3, 4}

\* the messages of a set, as a sequence in descending order of ID
RECURSIVE SortDesc(_)
SortDesc(S) ==
    IF S = {} THEN <<>>
    ELSE LET top == CHOOSE m \in S : \A o \in S : o.id <= m.id
         IN <<top>> \o SortDesc(S \ {top})

Range(s) == {s[i] : i \in 1..Len(s)}

\* ------------------------------------------------------------------------
\* Repository port (MessageDatabase)
\* ------------------------------------------------------------------------
GetApplicationByID(id) ==
    IF \E a \in Applications : a.id = id
    THEN CHOOSE a \in Applications : a.id = id
    ELSE NilApp

GetApplicationByToken(token) ==
    IF \E a \in Applications : a.token = token
    THEN CHOOSE a \in Applications : a.token = token
    ELSE NilApp

OwnerOf(m) == GetApplicationByID(m.appid).userID

GetMessagesByUser(st, userID) ==
    SortDesc({m \in st : OwnerOf(m) = userID})

GetMessagesByApplication(st, appID) ==
    SortDesc({m \in st : m.appid = appID})

GetMessagesByUserSince(st, userID, limit, since) ==
    LET rows == SortDesc({m \in st : /\ OwnerOf(m) = userID
                                     /\ (since = 0 \/ m.id < since)})
    IN SubSeq(rows, 1, Min(limit, Len(rows)))

GetMessagesByApplicationSince(st, appID, limit, since) ==
    LET rows == SortDesc({m \in st : /\ m.appid = appID
                                     /\ (since = 0 \/ m.id < since)})
    IN SubSeq(rows, 1, Min(limit, Len(rows)))

GetMessageByID(st, id) ==
    IF \E m \in st : m.id = id THEN CHOOSE m \in st : m.id = id ELSE NilMsg

DeleteMessageByID(st, id) == {m \in st : m.id # id}

DeleteMessagesByUser(st, userID) == {m \in st : OwnerOf(m) # userID}

DeleteMessagesByApplication(st, appID) == {m \in st : m.appid # appID}

\* ------------------------------------------------------------------------
\* Paging: pagingParams, withPaging, buildWithPaging
\* ------------------------------------------------------------------------
\* A query string is a sequence of <<key, value>> pairs.
HasKey(query, key) == \E i \in 1..Len(query) : query[i][1] = key

QueryGet(query, key) ==
    query[CHOOSE i \in 1..Len(query) :
              /\ query[i][1] = key
              /\ \A j \in 1..(i - 1) : query[j][1] # key][2]

\* url.Values.Encode() of the two values buildWithPaging adds, sorted by key
EncodeQuery(limit, since) == << <<"limit", limit>>, <<"since", since>> >>

\* the empty string as a URL
NoNext == [route |-> "", id |-> 0, query |-> <<>>]

\* withPaging whose Limit binding lacks max=200
withPaging_noMax(query) ==
    LET l == IF HasKey(query, "limit") THEN ParseInt(QueryGet(query, "limit"))
             ELSE [ok |-> TRUE, value |-> DefaultLimit]
        s == IF HasKey(query, "since") THEN ParseUint(QueryGet(query, "since"))
             ELSE [ok |-> TRUE, value |-> 0]
    IN IF /\ l.ok
          /\ s.ok
          /\ l.value >= MinLimit
          /\ s.value >= 0
       THEN [ok |-> TRUE, Limit |-> l.value, Since |-> s.value]
       ELSE [ok |-> FALSE, Limit |-> 0, Since |-> 0]

\* ctx.MustBindWith(params, binding.Query) on &pagingParams{Limit: 100}:
\* a key the query lacks leaves the field as it is; a value that does not
\* parse, or a field outside its binding range, aborts the request with 400.
withPaging(query) ==
    LET l == IF HasKey(query, "limit") THEN ParseInt(QueryGet(query, "limit"))
             ELSE [ok |-> TRUE, value |-> DefaultLimit]
        s == IF HasKey(query, "since") THEN ParseUint(QueryGet(query, "since"))
             ELSE [ok |-> TRUE, value |-> 0]
    IN IF /\ l.ok
          /\ s.ok
          /\ l.value >= MinLimit
          /\ l.value <= MaxLimit
          /\ s.value >= 0
       THEN [ok |-> TRUE, Limit |-> l.value, Since |-> s.value]
       ELSE [ok |-> FALSE, Limit |-> 0, Since |-> 0]

\* Message.ToExternal for each message
toExternalMessages(msg) ==
    [i \in 1..Len(msg) |->
        [id |-> msg[i].id, appid |-> msg[i].appid, title |-> msg[i].title]]

\* buildWithPaging that keeps the lookahead row on the page
buildWithPaging_keepLookahead(route, id, paging, messages) ==
    IF Len(messages) > paging.Limit
    THEN LET useMessages == messages
             since == useMessages[Len(useMessages)].id
             next == [route |-> route, id |-> id,
                      query |-> EncodeQuery(Itoa(paging.Limit), FormatUint(since))]
         IN [paging |-> [size |-> Len(useMessages), limit |-> paging.Limit,
                         next |-> next, since |-> since],
             messages |-> toExternalMessages(useMessages)]
    ELSE [paging |-> [size |-> Len(messages), limit |-> paging.Limit,
                      next |-> NoNext, since |-> 0],
          messages |-> toExternalMessages(messages)]

\* buildWithPaging that takes the cursor from the dropped lookahead row
buildWithPaging_cursorLookahead(route, id, paging, messages) ==
    IF Len(messages) > paging.Limit
    THEN LET useMessages == SubSeq(messages, 1, Len(messages) - 1)
             since == messages[Len(messages)].id
             next == [route |-> route, id |-> id,
                      query |-> EncodeQuery(Itoa(paging.Limit), FormatUint(since))]
         IN [paging |-> [size |-> Len(useMessages), limit |-> paging.Limit,
                         next |-> next, since |-> since],
             messages |-> toExternalMessages(useMessages)]
    ELSE [paging |-> [size |-> Len(messages), limit |-> paging.Limit,
                      next |-> NoNext, since |-> 0],
          messages |-> toExternalMessages(messages)]

\* buildWithPaging that takes the cursor from the first row of the page
buildWithPaging_cursorFirst(route, id, paging, messages) ==
    IF Len(messages) > paging.Limit
    THEN LET useMessages == SubSeq(messages, 1, Len(messages) - 1)
             since == useMessages[1].id
             next == [route |-> route, id |-> id,
                      query |-> EncodeQuery(Itoa(paging.Limit), FormatUint(since))]
         IN [paging |-> [size |-> Len(useMessages), limit |-> paging.Limit,
                         next |-> next, since |-> since],
             messages |-> toExternalMessages(useMessages)]
    ELSE [paging |-> [size |-> Len(messages), limit |-> paging.Limit,
                      next |-> NoNext, since |-> 0],
          messages |-> toExternalMessages(messages)]

\* buildWithPaging that reports the last row's ID as since on every page
buildWithPaging_sinceAlways(route, id, paging, messages) ==
    IF Len(messages) > paging.Limit
    THEN LET useMessages == SubSeq(messages, 1, Len(messages) - 1)
             since == useMessages[Len(useMessages)].id
             next == [route |-> route, id |-> id,
                      query |-> EncodeQuery(Itoa(paging.Limit), FormatUint(since))]
         IN [paging |-> [size |-> Len(useMessages), limit |-> paging.Limit,
                         next |-> next, since |-> since],
             messages |-> toExternalMessages(useMessages)]
    ELSE [paging |-> [size |-> Len(messages), limit |-> paging.Limit,
                      next |-> NoNext,
                      since |-> IF Len(messages) > 0 THEN messages[Len(messages)].id
                                ELSE 0],
          messages |-> toExternalMessages(messages)]

\* buildWithPaging whose cursor is one above the last row of the page
buildWithPaging_cursorInclusive(route, id, paging, messages) ==
    IF Len(messages) > paging.Limit
    THEN LET useMessages == SubSeq(messages, 1, Len(messages) - 1)
             since == useMessages[Len(useMessages)].id + 1
             next == [route |-> route, id |-> id,
                      query |-> EncodeQuery(Itoa(paging.Limit), FormatUint(since))]
         IN [paging |-> [size |-> Len(useMessages), limit |-> paging.Limit,
                         next |-> next, since |-> since],
             messages |-> toExternalMessages(useMessages)]
    ELSE [paging |-> [size |-> Len(messages), limit |-> paging.Limit,
                      next |-> NoNext, since |-> 0],
          messages |-> toExternalMessages(messages)]

buildWithPaging(route, id, paging, messages) ==
    IF Len(messages) > paging.Limit
    THEN LET useMessages == SubSeq(messages, 1, Len(messages) - 1)
             since == useMessages[Len(useMessages)].id
             next == [route |-> route, id |-> id,
                      query |-> EncodeQuery(Itoa(paging.Limit), FormatUint(since))]
         IN [paging |-> [size |-> Len(useMessages), limit |-> paging.Limit,
                         next |-> next, since |-> since],
             messages |-> toExternalMessages(useMessages)]
    ELSE [paging |-> [size |-> Len(messages), limit |-> paging.Limit,
                      next |-> NoNext, since |-> 0],
          messages |-> toExternalMessages(messages)]

\* ------------------------------------------------------------------------
\* Authentication (auth.GetUserID / auth.GetTokenID of the request context)
\* ------------------------------------------------------------------------
Tokens == {"tokA", "tokB", "tokC", "bad"}

\* The request context of CreateMessage as the application-token
\* authentication leaves it: ok, the token is the token of an application;
\* userID, what auth.GetUserID(ctx) returns, the owner of that application.
RequireApplicationToken(token) ==
    LET app == GetApplicationByToken(token)
    IN IF app = NilApp THEN [ok |-> FALSE, userID |-> 0]
       ELSE [ok |-> TRUE, userID |-> app.userID]

\* ------------------------------------------------------------------------
\* State
\* ------------------------------------------------------------------------
Workers == {1, 2}

VARIABLES
    store,          \* the messages in the repository
    nextID,         \* the ID the repository gives the next created message
    pc,             \* pc[p]: the step worker p's handler is at
    w,              \* w[p]: request context, locals and response of worker p
    notifications,  \* every Notifier.Notify call so far, in call order
    persisted,      \* the messages whose DB.CreateMessage call succeeded
    opCount,        \* create/delete requests started so far
    client          \* the last list request and its response

vars == <<store, nextID, pc, w, notifications, persisted, opCount, client>>

NoPage ==
    [paging |-> [size |-> 0, limit |-> 0, next |-> NoNext, since |-> 0],
     messages |-> <<>>]

\* a worker between requests, before its first one
IdleWorker ==
    [op |-> "none", opid |-> 0, userID |-> 0, id |-> 0, token |-> "",
     title |-> <<>>, message |-> NilMsg, messages |-> <<>>, snapshot |-> {}, removed |-> {},
     steps |-> <<>>, status |-> 0, error |-> ""]

\* The caller of the list handlers before its first request.  Of a cursor
\* traversal (a first request and the requests that follow the next URLs) it
\* keeps: first, the query of the first request; scope0, the messages in its
\* scope when the first request was served; seen, the IDs of the messages
\* returned so far; pages, the number of pages received; prevrows, the rows
\* the repository returned for the page before this one.
NoClient ==
    [userID |-> 0, route |-> "", id |-> 0, query |-> <<>>, status |-> 0,
     error |-> "", page |-> NoPage, rows |-> <<>>, queried |-> FALSE,
     followed |-> FALSE, prev |-> NoPage,
     first |-> <<>>, scope0 |-> {}, seen |-> <<>>, pages |-> 0, prevrows |-> <<>>]

\* successOrAbort(ctx, 500, err) with err != nil, ctx.AbortWithError(404, ...)
Abort(r, status, error) == [r EXCEPT !.status = status, !.error = error]

StorageError == "storage error"

Titles ==
    { <<>>, <<" ">>, <<"\t", " ">>, <<"\f", "U+00A0">>, <<"S">>, <<" ", "S">> }

\* the stores Spec starts from: messages 1..k, each of some application,
\* titled as a create without title leaves it
InitStores ==
    UNION { { {[id |-> i, appid |-> f[i],
                title |-> GetApplicationByID(f[i]).name] : i \in 1..k}
              : f \in [1..k -> {a.id : a \in Applications}] }
            : k \in 0..MaxInit }

Init ==
    /\ store \in InitStores
    /\ nextID = Cardinality(store) + 1
    /\ pc = [p \in Workers |-> "idle"]
    /\ w = [p \in Workers |-> IdleWorker]
    /\ notifications = <<>>
    /\ persisted = {}
    /\ opCount = 0
    /\ client = NoClient

\* a worker takes up a new create or delete request
\* (snapshot: the repository as the request's first storage call finds it)
Begin(p, op, userID, id, token) ==
    [IdleWorker EXCEPT !.op = op, !.opid = opCount + 1, !.userID = userID,
                       !.id = id, !.token = token, !.snapshot = store]

\* a request goes to the first worker that is free
CanBegin(p) ==
    /\ pc[p] = "idle"
    /\ \A q \in Workers : q < p => pc[q] # "idle"
    /\ opCount < MaxOps

\* ------------------------------------------------------------------------
\* CreateMessage
\* ------------------------------------------------------------------------
\* CreateMessage that stores the title with its surrounding white space cut
NewMessage_trimmed(application, title) ==
    [id |-> 0, appid |-> application.id,
     title |-> IF TrimSpace(title) = <<>> THEN application.name
               ELSE TrimSpace(title)]

\* the panic of application.ID on a nil application
NilDereference == "panic: nil pointer dereference"

\* ApplicationMessage.ToInternal(application.ID) and the title default
NewMessage(application, title) ==
    [id |-> 0, appid |-> application.id,
     title |-> IF TrimSpace(title) = <<>> THEN application.name ELSE title]

\* CreateMessage that goes on to notify when a.DB.CreateMessage failed
CreateMessage_Persist_ignoreError(p, token, title, bindErr, failGet, failCreate) ==
    LET auth == RequireApplicationToken(token)
        r == [Begin(p, "create", auth.userID, 0, token) EXCEPT !.title = title]
        application == GetApplicationByToken(token)
        message == [NewMessage(application, title) EXCEPT !.id = nextID]
    IN /\ CanBegin(p)
       /\ opCount' = opCount + 1
       /\ UNCHANGED <<notifications, client>>
       /\ IF bindErr
          THEN /\ w' = [w EXCEPT ![p] = Abort(r, 400, "bad request")]
               /\ UNCHANGED <<store, nextID, pc, persisted>>
          ELSE IF failGet
          THEN /\ w' = [w EXCEPT ![p] = Abort(r, 500, StorageError)]
               /\ UNCHANGED <<store, nextID, pc, persisted>>
          ELSE IF application = NilApp
          THEN /\ w' = [w EXCEPT ![p] = [r EXCEPT !.error = NilDereference]]
               /\ UNCHANGED <<store, nextID, pc, persisted>>
          ELSE IF failCreate
          THEN /\ w' = [w EXCEPT ![p] =
                          [r EXCEPT !.message = NewMessage(application, title),
                                    !.steps = <<"persist_failed">>]]
               /\ pc' = [pc EXCEPT ![p] = "create_notify"]
               /\ UNCHANGED <<store, nextID, persisted>>
          ELSE /\ store' = store \cup {message}
               /\ nextID' = nextID + 1
               /\ persisted' = persisted \cup {message}
               /\ w' = [w EXCEPT ![p] = [r EXCEPT !.message = message,
                                                  !.steps = <<"persist">>]]
               /\ pc' = [pc EXCEPT ![p] = "create_notify"]

\* The handler up to and including a.DB.CreateMessage(message); bindErr:
\* ctx.Bind rejects the body.  The handler does not test the application it
\* gets for nil: for a token of no application, application.ID panics and
\* the handler ends without a response of its own.
CreateMessage_Persist(p, token, title, bindErr, failGet, failCreate) ==
    LET auth == RequireApplicationToken(token)
        r == [Begin(p, "create", auth.userID, 0, token) EXCEPT !.title = title]
        application == GetApplicationByToken(token)
        message == [NewMessage(application, title) EXCEPT !.id = nextID]
    IN /\ CanBegin(p)
       /\ opCount' = opCount + 1
       /\ UNCHANGED <<notifications, client>>
       /\ IF bindErr
          THEN /\ w' = [w EXCEPT ![p] = Abort(r, 400, "bad request")]
               /\ UNCHANGED <<store, nextID, pc, persisted>>
          ELSE IF failGet
          THEN /\ w' = [w EXCEPT ![p] = Abort(r, 500, StorageError)]
               /\ UNCHANGED <<store, nextID, pc, persisted>>
          ELSE IF application = NilApp
          THEN /\ w' = [w EXCEPT ![p] = [r EXCEPT !.error = NilDereference]]
               /\ UNCHANGED <<store, nextID, pc, persisted>>
          ELSE IF failCreate
          THEN /\ w' = [w EXCEPT ![p] =
                          Abort([r EXCEPT !.message = NewMessage(application, title),
                                          !.steps = <<"persist_failed">>],
                                500, StorageError)]
               /\ UNCHANGED <<store, nextID, pc, persisted>>
          ELSE /\ store' = store \cup {message}
               /\ nextID' = nextID + 1
               /\ persisted' = persisted \cup {message}
               /\ w' = [w EXCEPT ![p] = [r EXCEPT !.message = message,
                                                  !.steps = <<"persist">>]]
               /\ pc' = [pc EXCEPT ![p] = "create_notify"]

\* CreateMessage that notifies the message as requested, without its stored ID
CreateMessage_Notify_unstored(p, delivered) ==
    /\ pc[p] = "create_notify"
    /\ notifications' = Append(notifications,
           [opid |-> w[p].opid, userID |-> w[p].userID, kind |-> "message",
            messages |-> <<[w[p].message EXCEPT !.id = 0]>>,
            delivered |-> delivered])
    /\ w' = [w EXCEPT ![p].status = 200,
                      ![p].steps = Append(w[p].steps, "notify")]
    /\ pc' = [pc EXCEPT ![p] = "idle"]
    /\ UNCHANGED <<store, nextID, persisted, opCount, client>>

\* CreateMessage that takes the message back and fails when the
\* notification was not delivered
CreateMessage_Notify_rollback(p, delivered) ==
    /\ pc[p] = "create_notify"
    /\ notifications' = Append(notifications,
           [opid |-> w[p].opid, userID |-> w[p].userID, kind |-> "message",
            messages |-> <<w[p].message>>, delivered |-> delivered])
    /\ pc' = [pc EXCEPT ![p] = "idle"]
    /\ UNCHANGED <<nextID, persisted, opCount, client>>
    /\ IF delivered
       THEN /\ w' = [w EXCEPT ![p].status = 200,
                              ![p].steps = Append(w[p].steps, "notify")]
            /\ UNCHANGED store
       ELSE /\ w' = [w EXCEPT ![p].status = 500,
                              ![p].error = "notifier error",
                              ![p].steps = Append(w[p].steps, "notify")]
            /\ store' = store \ {w[p].message}

\* a.Notifier.Notify(auth.GetUserID(ctx), message); ctx.JSON(200, ...)
\* delivered: whether the notifier got the event to the live listeners;
\* Notify returns nothing, so the handler goes on the same either way.
CreateMessage_Notify(p, delivered) ==
    /\ pc[p] = "create_notify"
    /\ notifications' = Append(notifications,
           [opid |-> w[p].opid, userID |-> w[p].userID, kind |-> "message",
            messages |-> <<w[p].message>>, delivered |-> delivered])
    /\ w' = [w EXCEPT ![p].status = 200,
                      ![p].steps = Append(w[p].steps, "notify")]
    /\ pc' = [pc EXCEPT ![p] = "idle"]
    /\ UNCHANGED <<store, nextID, persisted, opCount, client>>

\* ------------------------------------------------------------------------
\* DeleteMessages: all messages of the acting user
\* ------------------------------------------------------------------------
\* DeleteMessages that goes on when a.DB.GetMessagesByUser failed
DeleteMessages_Fetch_ignoreError(p, userID, fail) ==
    LET r == Begin(p, "deleteAll", userID, 0, "")
    IN /\ CanBegin(p)
       /\ opCount' = opCount + 1
       /\ UNCHANGED <<store, nextID, notifications, persisted, client>>
       /\ w' = [w EXCEPT ![p] =
                   [r EXCEPT !.messages = IF fail THEN <<>>
                                          ELSE GetMessagesByUser(store, userID),
                             !.steps = <<"fetch">>]]
       /\ pc' = [pc EXCEPT ![p] = "deleteAll_notify"]

DeleteMessages_Fetch(p, userID, fail) ==
    LET r == Begin(p, "deleteAll", userID, 0, "")
    IN /\ CanBegin(p)
       /\ opCount' = opCount + 1
       /\ UNCHANGED <<store, nextID, notifications, persisted, client>>
       /\ IF fail
          THEN /\ w' = [w EXCEPT ![p] = Abort(r, 500, StorageError)]
               /\ UNCHANGED pc
          ELSE /\ w' = [w EXCEPT ![p] =
                          [r EXCEPT !.messages = GetMessagesByUser(store, userID),
                                    !.steps = <<"fetch">>]]
               /\ pc' = [pc EXCEPT ![p] = "deleteAll_notify"]

\* a.Notifier.Notify(auth.GetUserID(ctx), event) of a delete handler
NotifyDeletions(p, nextpc, delivered) ==
    /\ notifications' = Append(notifications,
           [opid |-> w[p].opid, userID |-> w[p].userID, kind |-> "deletions",
            messages |-> w[p].messages, delivered |-> delivered])
    /\ w' = [w EXCEPT ![p].steps = Append(w[p].steps, "notify")]
    /\ pc' = [pc EXCEPT ![p] = nextpc]
    /\ UNCHANGED <<store, nextID, persisted, opCount, client>>

\* a delete call that fails after it has removed the messages
RunDelete_removesOnFailure(p, after, fail) ==
    /\ pc' = [pc EXCEPT ![p] = "idle"]
    /\ UNCHANGED <<nextID, notifications, persisted, opCount, client>>
    /\ store' = after
    /\ IF fail
       THEN w' = [w EXCEPT ![p] =
                     Abort([w[p] EXCEPT !.steps = Append(w[p].steps, "delete_failed")],
                           500, StorageError)]
       ELSE w' = [w EXCEPT ![p].removed = store \ after,
                           ![p].steps = Append(w[p].steps, "delete"),
                           ![p].status = 200]

\* successOrAbort(ctx, 500, <the repository's delete call>)
RunDelete(p, after, fail) ==
    /\ pc' = [pc EXCEPT ![p] = "idle"]
    /\ UNCHANGED <<nextID, notifications, persisted, opCount, client>>
    /\ IF fail
       THEN /\ w' = [w EXCEPT ![p] =
                       Abort([w[p] EXCEPT !.steps = Append(w[p].steps, "delete_failed")],
                             500, StorageError)]
            /\ UNCHANGED store
       ELSE /\ store' = after
            /\ w' = [w EXCEPT ![p].removed = store \ after,
                              ![p].steps = Append(w[p].steps, "delete"),
                              ![p].status = 200]

DeleteMessages_Notify(p, delivered) ==
    /\ pc[p] = "deleteAll_notify"
    /\ NotifyDeletions(p, "deleteAll_delete", delivered)

DeleteMessages_Delete(p, fail) ==
    /\ pc[p] = "deleteAll_delete"
    /\ RunDelete(p, DeleteMessagesByUser(store, w[p].userID), fail)

\* ------------------------------------------------------------------------
\* DeleteMessageWithApplication: all messages of one application
\* ------------------------------------------------------------------------
\* The handler up to and including a.DB.GetMessagesByApplication(id):
\* status 0 when it goes on to notify, else the response it aborts with.
DeleteMessageWithApplication_Resolve(st, userID, id, failApp, failGet) ==
    LET application == GetApplicationByID(id)
    IN IF failApp THEN [status |-> 500, error |-> StorageError, messages |-> <<>>]
       ELSE IF application # NilApp /\ application.userID = userID
       THEN IF failGet
            THEN [status |-> 500, error |-> StorageError, messages |-> <<>>]
            ELSE [status |-> 0, error |-> "",
                  messages |-> GetMessagesByApplication(st, id)]
       ELSE [status |-> 404, error |-> "application does not exists",
             messages |-> <<>>]

\* DeleteMessageWithApplication that fetches and notifies before it checks
\* the owner of the application
DeleteMessageWithApplication_Fetch_notifyFirst(p, userID, id, failApp, failGet) ==
    LET r == Begin(p, "deleteApp", userID, id, "")
        res == DeleteMessageWithApplication_Resolve(store, userID, id, failApp, failGet)
    IN /\ CanBegin(p)
       /\ opCount' = opCount + 1
       /\ UNCHANGED <<store, nextID, persisted, client>>
       /\ IF res.status = 404
          THEN /\ w' = [w EXCEPT ![p] = Abort(r, res.status, res.error)]
               /\ notifications' = Append(notifications,
                      [opid |-> r.opid, userID |-> userID, kind |-> "deletions",
                       messages |-> GetMessagesByApplication(store, id),
                       delivered |-> TRUE])
               /\ UNCHANGED pc
          ELSE IF res.status # 0
          THEN /\ w' = [w EXCEPT ![p] = Abort(r, res.status, res.error)]
               /\ UNCHANGED <<pc, notifications>>
          ELSE /\ w' = [w EXCEPT ![p] = [r EXCEPT !.messages = res.messages,
                                                  !.steps = <<"fetch">>]]
               /\ pc' = [pc EXCEPT ![p] = "deleteApp_notify"]
               /\ UNCHANGED notifications

DeleteMessageWithApplication_Fetch(p, userID, id, failApp, failGet) ==
    LET r == Begin(p, "deleteApp", userID, id, "")
        res == DeleteMessageWithApplication_Resolve(store, userID, id, failApp, failGet)
    IN /\ CanBegin(p)
       /\ opCount' = opCount + 1
       /\ UNCHANGED <<store, nextID, notifications, persisted, client>>
       /\ IF res.status # 0
          THEN /\ w' = [w EXCEPT ![p] = Abort(r, res.status, res.error)]
               /\ UNCHANGED pc
          ELSE /\ w' = [w EXCEPT ![p] = [r EXCEPT !.messages = res.messages,
                                                  !.steps = <<"fetch">>]]
               /\ pc' = [pc EXCEPT ![p] = "deleteApp_notify"]

\* DeleteMessageWithApplication that builds its event from the messages the
\* application has when it notifies
DeleteMessageWithApplication_Notify_refetch(p, delivered) ==
    /\ pc[p] = "deleteApp_notify"
    /\ notifications' = Append(notifications,
           [opid |-> w[p].opid, userID |-> w[p].userID, kind |-> "deletions",
            messages |-> GetMessagesByApplication(store, w[p].id),
            delivered |-> delivered])
    /\ w' = [w EXCEPT ![p].steps = Append(w[p].steps, "notify")]
    /\ pc' = [pc EXCEPT ![p] = "deleteApp_delete"]
    /\ UNCHANGED <<store, nextID, persisted, opCount, client>>

DeleteMessageWithApplication_Notify(p, delivered) ==
    /\ pc[p] = "deleteApp_notify"
    /\ NotifyDeletions(p, "deleteApp_delete", delivered)

DeleteMessageWithApplication_Delete(p, fail) ==
    /\ pc[p] = "deleteApp_delete"
    /\ RunDelete(p, DeleteMessagesByApplication(store, w[p].id), fail)

\* ------------------------------------------------------------------------
\* DeleteMessage: one message
\* ------------------------------------------------------------------------
\* DeleteMessage that answers 403 for a message of another user
DeleteMessage_Resolve_forbidden(st, userID, id, failMsg, failApp) ==
    LET msg == GetMessageByID(st, id)
        app == GetApplicationByID(msg.appid)
    IN IF failMsg THEN [status |-> 500, error |-> StorageError, messages |-> <<>>]
       ELSE IF msg = NilMsg
       THEN [status |-> 404, error |-> "message does not exist", messages |-> <<>>]
       ELSE IF failApp
       THEN [status |-> 500, error |-> StorageError, messages |-> <<>>]
       ELSE IF app # NilApp /\ app.userID = userID
       THEN [status |-> 0, error |-> "", messages |-> <<msg>>]
       ELSE [status |-> 403, error |-> "forbidden", messages |-> <<>>]

\* DeleteMessage without the check of the application's owner
DeleteMessage_Resolve_noOwnerCheck(st, userID, id, failMsg, failApp) ==
    LET msg == GetMessageByID(st, id)
        app == GetApplicationByID(msg.appid)
    IN IF failMsg THEN [status |-> 500, error |-> StorageError, messages |-> <<>>]
       ELSE IF msg = NilMsg
       THEN [status |-> 404, error |-> "message does not exist", messages |-> <<>>]
       ELSE IF failApp
       THEN [status |-> 500, error |-> StorageError, messages |-> <<>>]
       ELSE IF app # NilApp
       THEN [status |-> 0, error |-> "", messages |-> <<msg>>]
       ELSE [status |-> 404, error |-> "message does not exist", messages |-> <<>>]

\* The handler up to the ownership check on the message's application:
\* status 0 when it goes on to notify, else the response it aborts with.
DeleteMessage_Resolve(st, userID, id, failMsg, failApp) ==
    LET msg == GetMessageByID(st, id)
        app == GetApplicationByID(msg.appid)
    IN IF failMsg THEN [status |-> 500, error |-> StorageError, messages |-> <<>>]
       ELSE IF msg = NilMsg
       THEN [status |-> 404, error |-> "message does not exist", messages |-> <<>>]
       ELSE IF failApp
       THEN [status |-> 500, error |-> StorageError, messages |-> <<>>]
       ELSE IF app # NilApp /\ app.userID = userID
       THEN [status |-> 0, error |-> "", messages |-> <<msg>>]
       ELSE [status |-> 404, error |-> "message does not exist", messages |-> <<>>]

\* DeleteMessage that deletes without notifying first
DeleteMessage_Fetch_skipNotify(p, userID, id, failMsg, failApp) ==
    LET r == Begin(p, "deleteOne", userID, id, "")
        res == DeleteMessage_Resolve(store, userID, id, failMsg, failApp)
    IN /\ CanBegin(p)
       /\ opCount' = opCount + 1
       /\ UNCHANGED <<store, nextID, notifications, persisted, client>>
       /\ IF res.status # 0
          THEN /\ w' = [w EXCEPT ![p] = Abort(r, res.status, res.error)]
               /\ UNCHANGED pc
          ELSE /\ w' = [w EXCEPT ![p] = [r EXCEPT !.messages = res.messages,
                                                  !.steps = <<"fetch">>]]
               /\ pc' = [pc EXCEPT ![p] = "deleteOne_delete"]

DeleteMessage_Fetch(p, userID, id, failMsg, failApp) ==
    LET r == Begin(p, "deleteOne", userID, id, "")
        res == DeleteMessage_Resolve(store, userID, id, failMsg, failApp)
    IN /\ CanBegin(p)
       /\ opCount' = opCount + 1
       /\ UNCHANGED <<store, nextID, notifications, persisted, client>>
       /\ IF res.status # 0
          THEN /\ w' = [w EXCEPT ![p] = Abort(r, res.status, res.error)]
               /\ UNCHANGED pc
          ELSE /\ w' = [w EXCEPT ![p] = [r EXCEPT !.messages = res.messages,
                                                  !.steps = <<"fetch">>]]
               /\ pc' = [pc EXCEPT ![p] = "deleteOne_notify"]

DeleteMessage_Notify(p, delivered) ==
    /\ pc[p] = "deleteOne_notify"
    /\ NotifyDeletions(p, "deleteOne_delete", delivered)

DeleteMessage_Delete(p, fail) ==
    /\ pc[p] = "deleteOne_delete"
    /\ RunDelete(p, DeleteMessageByID(store, w[p].id), fail)

\* ------------------------------------------------------------------------
\* GetMessages, GetMessagesWithApplication
\* ------------------------------------------------------------------------
\* The response of a list handler: status, error, the PagedMessages sent,
\* and the rows the repository returned (queried: the paged query was made).
ListResponse(status, error, page, rows, queried) ==
    [status |-> status, error |-> error, page |-> page, rows |-> rows,
     queried |-> queried]

\* GetMessages that asks the repository for limit rows, without the lookahead
GetMessages_noLookahead(st, userID, query, fail) ==
    LET params == withPaging(query)
        messages == GetMessagesByUserSince(st, userID, params.Limit, params.Since)
    IN IF ~params.ok THEN ListResponse(400, "bad request", NoPage, <<>>, FALSE)
       ELSE IF fail THEN ListResponse(500, StorageError, NoPage, <<>>, FALSE)
       ELSE ListResponse(200, "", buildWithPaging("message", 0, params, messages),
                         messages, TRUE)

GetMessages(st, userID, query, fail) ==
    LET params == withPaging(query)
        messages == GetMessagesByUserSince(st, userID, params.Limit + 1, params.Since)
    IN IF ~params.ok THEN ListResponse(400, "bad request", NoPage, <<>>, FALSE)
       ELSE IF fail THEN ListResponse(500, StorageError, NoPage, <<>>, FALSE)
       ELSE ListResponse(200, "", buildWithPaging("message", 0, params, messages),
                         messages, TRUE)

GetMessagesWithApplication(st, userID, id, query, failApp, failGet) ==
    LET params == withPaging(query)
        app == GetApplicationByID(id)
        messages == GetMessagesByApplicationSince(st, id, params.Limit + 1, params.Since)
    IN IF ~params.ok THEN ListResponse(400, "bad request", NoPage, <<>>, FALSE)
       ELSE IF failApp THEN ListResponse(500, StorageError, NoPage, <<>>, FALSE)
       ELSE IF app # NilApp /\ app.userID = userID
       THEN IF failGet THEN ListResponse(500, StorageError, NoPage, <<>>, FALSE)
            ELSE ListResponse(200, "",
                              buildWithPaging("application", id, params, messages),
                              messages, TRUE)
       ELSE ListResponse(404, "application does not exist", NoPage, <<>>, FALSE)

\* the router: GET /message and GET /application/{id}/message
Serve(st, userID, route, id, query, failApp, failGet) ==
    IF route = "message" THEN GetMessages(st, userID, query, failGet)
    ELSE GetMessagesWithApplication(st, userID, id, query, failApp, failGet)

ClientOf(userID, route, id, query, resp, followed, prev) ==
    [NoClient EXCEPT
        !.userID = userID, !.route = route, !.id = id, !.query = query,
        !.status = resp.status, !.error = resp.error, !.page = resp.page,
        !.rows = resp.rows, !.queried = resp.queried,
        !.followed = followed, !.prev = prev]

IDs(msgs) == [i \in 1..Len(msgs) |-> msgs[i].id]

\* the messages of a store a list request is about
ScopeOf(st, userID, route, id) ==
    IF route = "message" THEN {m \in st : OwnerOf(m) = userID}
    ELSE {m \in st : m.appid = id}

\* a list request of the client's own making
Request(userID, route, id, query, failApp, failGet) ==
    LET resp == Serve(store, userID, route, id, query, failApp, failGet)
    IN /\ client' = [ClientOf(userID, route, id, query, resp, FALSE, NoPage)
                        EXCEPT !.first = query,
                               !.scope0 = ScopeOf(store, userID, route, id),
                               !.seen = IDs(resp.page.messages),
                               !.pages = IF resp.status = 200 THEN 1 ELSE 0]
       /\ UNCHANGED <<store, nextID, pc, w, notifications, persisted, opCount>>

\* the client follows the next URL of the page it holds, unmodified
FollowNext(failApp, failGet) ==
    LET next == client.page.paging.next
        resp == Serve(store, client.userID, next.route, next.id, next.query,
                      failApp, failGet)
    IN /\ client.status = 200
       /\ next # NoNext
       /\ client' = [ClientOf(client.userID, next.route, next.id, next.query,
                              resp, TRUE, client.page)
                        EXCEPT !.first = client.first,
                               !.scope0 = client.scope0,
                               !.seen = client.seen \o IDs(resp.page.messages),
                               !.pages = client.pages
                                           + (IF resp.status = 200 THEN 1 ELSE 0),
                               !.prevrows = client.rows]
       /\ UNCHANGED <<store, nextID, pc, w, notifications, persisted, opCount>>

\* ------------------------------------------------------------------------
\* Spec: two workers run create and delete requests concurrently; any
\* storage call may fail, every notification is delivered.  Creates come
\* without title, for the applications
\* of both users or with a token of no application.
\* ------------------------------------------------------------------------
\* P: the workers, T: the tokens, S: the titles, F: whether a storage call
\* fails, D: whether a notification is delivered
Create(P, T, S, F, D) ==
    \/ \E p \in P, token \in T, title \in S,
          bindErr \in F, failGet \in F, failCreate \in F :
          CreateMessage_Persist(p, token, title, bindErr, failGet, failCreate)
    \/ \E p \in P, delivered \in D : CreateMessage_Notify(p, delivered)

DeleteAll(P, F, D) ==
    \/ \E p \in P, userID \in Users, fail \in F :
          DeleteMessages_Fetch(p, userID, fail)
    \/ \E p \in P, delivered \in D : DeleteMessages_Notify(p, delivered)
    \/ \E p \in P, fail \in F : DeleteMessages_Delete(p, fail)

DeleteApp(P, F, D) ==
    \/ \E p \in P, userID \in Users, id \in AppIDs, failApp \in F, failGet \in F :
          DeleteMessageWithApplication_Fetch(p, userID, id, failApp, failGet)
    \/ \E p \in P, delivered \in D :
          DeleteMessageWithApplication_Notify(p, delivered)
    \/ \E p \in P, fail \in F : DeleteMessageWithApplication_Delete(p, fail)

DeleteOne(P, F, D) ==
    \/ \E p \in P, userID \in Users, id \in 1..nextID, failMsg \in F, failApp \in F :
          DeleteMessage_Fetch(p, userID, id, failMsg, failApp)
    \/ \E p \in P, delivered \in D : DeleteMessage_Notify(p, delivered)
    \/ \E p \in P, fail \in F : DeleteMessage_Delete(p, fail)

Next ==
    \/ Create(Workers, {"tokA", "tokC", "bad"}, {<<>>}, BOOLEAN, {TRUE})
    \/ DeleteAll(Workers, BOOLEAN, {TRUE})
    \/ DeleteApp(Workers, BOOLEAN, {TRUE})
    \/ DeleteOne(Workers, BOOLEAN, {TRUE})

Spec == Init /\ [][Next]_vars

\* ------------------------------------------------------------------------
\* SpecClient: a client makes a list request and follows the next URLs it
\* gets while a worker runs create and delete requests (no storage call
\* fails)
\* ------------------------------------------------------------------------
\* the queries of the client of SpecClient
ListQueries ==
    { << <<"limit", <<"1">>>> >>,
      << <<"limit", <<"2">>>> >> }

\* which storage call of a list handler fails: <<failApp, failGet>>
ListFailures == { <<FALSE, FALSE>>, <<TRUE, FALSE>>, <<FALSE, TRUE>> }

\* the client's first list request
FirstRequest(Q, F) ==
    /\ client = NoClient
    /\ \/ \E userID \in Users, query \in Q, f \in F :
             Request(userID, "message", 0, query, FALSE, f[2])
       \/ \E userID \in Users, id \in AppIDs, query \in Q, f \in F :
             Request(userID, "application", id, query, f[1], f[2])

NextClient ==
    \/ FirstRequest(ListQueries, {<<FALSE, FALSE>>})
    \/ FollowNext(FALSE, FALSE)
    \/ Create({1}, {"tokA", "tokC"}, {<<>>}, {FALSE}, {TRUE})
    \/ DeleteAll({1}, {FALSE}, {TRUE})
    \/ DeleteApp({1}, {FALSE}, {TRUE})
    \/ DeleteOne({1}, {FALSE}, {TRUE})

SpecClient == Init /\ [][NextClient]_vars

\* ------------------------------------------------------------------------
\* SpecCreate: a worker runs create requests with any token and title
\* ------------------------------------------------------------------------
NextCreate == Create({1}, Tokens, Titles, BOOLEAN, {TRUE})

SpecCreate == Init /\ [][NextCreate]_vars

\* ------------------------------------------------------------------------
\* SpecNotify: a worker runs create and delete requests; any storage call
\* may fail and any notification may fail to reach the listeners
\* ------------------------------------------------------------------------
NextNotify ==
    \/ Create({1}, {"tokA", "tokC"}, {<<>>}, BOOLEAN, BOOLEAN)
    \/ DeleteAll({1}, BOOLEAN, BOOLEAN)
    \/ DeleteApp({1}, BOOLEAN, BOOLEAN)
    \/ DeleteOne({1}, BOOLEAN, BOOLEAN)

SpecNotify == Init /\ [][NextNotify]_vars

\* ------------------------------------------------------------------------
\* SpecPaging: one list request with any paging parameters, and the requests
\* that follow its next URLs, on a store that does not change
\* ------------------------------------------------------------------------
PagingIDs == (PageMaxID - PageSpan + 1)..PageMaxID

\* which application each message of a store belongs to: all to application
\* 1, or spread over the three applications
PagingLayouts ==
    { [i \in PagingIDs |-> 1], [i \in PagingIDs |-> (i % 3) + 1] }

PagingStores ==
    { {[id |-> i, appid |-> f[i], title |-> GetApplicationByID(f[i]).name] : i \in ids}
      : ids \in SUBSET PagingIDs, f \in PagingLayouts }

\* the raw values of limit and since: in range, at and beyond the edges of
\* the binding range, negative, signed, empty, beyond 64 bits
LimitValues ==
    { <<"0">>, <<"1">>, <<"2">>, <<"2", "0", "0">>, <<"2", "0", "1">>, <<"-", "1">>,
      <<"+", "2">>, <<>> }

\* the digits of 2^64
Uint64Overflow ==
    <<"1", "8", "4", "4", "6", "7", "4", "4", "0", "7",
      "3", "7", "0", "9", "5", "5", "1", "6", "1", "6">>

SinceValues ==
    {FormatUint(n) : n \in 0..(PageMaxID + 1)}
    \cup { <<"-", "1">>, <<"+", "1">>, <<>>, Uint64Overflow }

PagingQueries ==
    { <<>> }
    \cup { << <<"limit", l>> >> : l \in LimitValues }
    \cup { << <<"since", c>> >> : c \in SinceValues }
    \cup { << <<"limit", l>>, <<"since", c>> >> : l \in LimitValues, c \in SinceValues }

InitPaging ==
    /\ store \in PagingStores
    /\ nextID = PageMaxID + 1
    /\ pc = [p \in Workers |-> "idle"]
    /\ w = [p \in Workers |-> IdleWorker]
    /\ notifications = <<>>
    /\ persisted = {}
    /\ opCount = 0
    /\ client = NoClient

NextPaging ==
    \/ FirstRequest(PagingQueries, ListFailures)
    \/ \E f \in ListFailures : FollowNext(f[1], f[2])

SpecPaging == InitPaging /\ [][NextPaging]_vars

\* ------------------------------------------------------------------------
\* Properties of the list handlers
\* ------------------------------------------------------------------------
\* the paging parameters the client's request was bound to
Params == withPaging(client.query)

\* the messages of a store the client's request is about
Scope(st) ==
    IF client.route = "message" THEN {m \in st : OwnerOf(m) = client.userID}
    ELSE {m \in st : m.appid = client.id}

\* those of them a request with this since may return, newest first
Older(st, since) ==
    SortDesc({m \in Scope(st) : since = 0 \/ m.id < since})

\* the since value of a page's next URL
Cursor(page) == ParseUint(QueryGet(page.paging.next.query, "since")).value

\* the limit value of a page's next URL
NextLimit(page) == ParseInt(QueryGet(page.paging.next.query, "limit")).value

\* C1: a list request that is served was bound to a limit in 1..200; the
\* repository was asked for limit+1 rows; the page holds at most limit
\* messages; and it carries a next URL exactly if the repository returned
\* more than limit rows.
C1_PageWithinLimit ==
    client.queried =>
        LET all == Older(store, Params.Since)
        IN /\ Params.Limit \in MinLimit..MaxLimit
           /\ client.rows = SubSeq(all, 1, Min(Params.Limit + 1, Len(all)))
           /\ Len(client.page.messages) <= Params.Limit
           /\ (client.page.paging.next # NoNext) <=> (Len(client.rows) > Params.Limit)

C1_Witness ==
    /\ client.queried
    /\ client.route = "application"
    /\ Params.Limit = 2
    /\ Len(client.rows) = 3
    /\ Len(client.page.messages) = 2
    /\ client.page.paging.next # NoNext

\* C3: when the repository returns more than limit rows, the page is the
\* first limit rows of the scope in descending order of ID, the cursor of the
\* next URL is the ID of the last message of the page, which is the smallest
\* on it, and the since of the result is that cursor.
C3_FullPage ==
    (client.queried /\ Len(client.rows) > Params.Limit) =>
        LET all == Older(store, Params.Since)
            page == client.page
        IN /\ page.messages = toExternalMessages(SubSeq(all, 1, Params.Limit))
           /\ \A i, j \in 1..Len(page.messages) :
                  i < j => page.messages[i].id > page.messages[j].id
           /\ page.paging.next # NoNext
           /\ page.paging.next.route = client.route
           /\ page.paging.next.id = client.id
           /\ NextLimit(page) = Params.Limit
           /\ Cursor(page) = page.messages[Len(page.messages)].id
           /\ \A i \in 1..Len(page.messages) : Cursor(page) <= page.messages[i].id
           /\ page.paging.since = Cursor(page)

\* limit=2, since=0, store [10,9,8,7]: page [10,9], cursor and since 9
C3_Witness ==
    /\ {m.id : m \in store} = {7, 8, 9, 10}
    /\ client.queried
    /\ client.route = "message"
    /\ client.query = << <<"limit", <<"2">>>>, <<"since", <<"0">>>> >>
    /\ IDs(client.rows) = <<10, 9, 8>>
    /\ IDs(client.page.messages) = <<10, 9>>
    /\ Cursor(client.page) = 9
    /\ client.page.paging.since = 9

\* C4: when the repository returns at most limit rows, the page holds all of
\* them, which are all messages of the scope older than since, its size is
\* their number, there is no next URL and the since of the result is 0.
C4_LastPage ==
    (client.queried /\ Len(client.rows) <= Params.Limit) =>
        LET all == Older(store, Params.Since)
            page == client.page
        IN /\ client.rows = all
           /\ page.messages = toExternalMessages(all)
           /\ page.paging.size = Len(all)
           /\ page.paging.limit = Params.Limit
           /\ page.paging.next = NoNext
           /\ page.paging.since = 0

\* limit=2, since=9, store [10,9,8,7]: page [8,7], no next URL
C4_Witness ==
    /\ {m.id : m \in store} = {7, 8, 9, 10}
    /\ client.queried
    /\ client.route = "message"
    /\ client.query = << <<"limit", <<"2">>>>, <<"since", <<"9">>>> >>
    /\ IDs(client.page.messages) = <<8, 7>>
    /\ client.page.paging.size = 2
    /\ client.page.paging.next = NoNext
    /\ client.page.paging.since = 0

\* C2: the request that follows a page's next URL is bound to the cursor c
\* of that URL as since and to the same limit, returns no message with an
\* ID >= c and no message of the page the URL came from.
C2_FollowUpOlder ==
    (client.followed /\ client.queried) =>
        LET c == Cursor(client.prev)
        IN /\ Params.Since = c
           /\ Params.Limit = client.prev.paging.limit
           /\ \A i \in 1..Len(client.page.messages) :
                  /\ client.page.messages[i].id < c
                  /\ \A j \in 1..Len(client.prev.messages) :
                         client.page.messages[i].id # client.prev.messages[j].id

\* a follow-up page that holds a message, fetched after a message newer
\* than the prior page came into the scope
C2_Witness ==
    /\ client.followed
    /\ client.queried
    /\ Len(client.page.messages) > 0
    /\ \E m \in Scope(store) : m.id > client.prev.messages[1].id

\* ------------------------------------------------------------------------
\* Properties of the authorization checks
\* ------------------------------------------------------------------------
\* an application ID that names no application
MissingAppID == CHOOSE id \in AppIDs : GetApplicationByID(id) = NilApp

\* the applications that exist and belong to another user than u
ForeignApps(u) == {a.id : a \in {b \in Applications : b.userID # u}}

\* what the caller sees of a list response
Seen(resp) == <<resp.status, resp.error, resp.page>>

\* C5: for list-by-application, delete-by-application and delete-one, the
\* response for a target of another user is the not-found response the same
\* request gets for a target that does not exist; and the responses that
\* were given to such requests are that one.
C5_ForeignAsMissing ==
    /\ \A u \in Users : \A id \in ForeignApps(u) :
          /\ \A q \in ListQueries :
                /\ GetMessagesWithApplication(store, u, id, q, FALSE, FALSE).status = 404
                /\ Seen(GetMessagesWithApplication(store, u, id, q, FALSE, FALSE))
                     = Seen(GetMessagesWithApplication(store, u, MissingAppID, q,
                                                       FALSE, FALSE))
          /\ DeleteMessageWithApplication_Resolve(store, u, id, FALSE, FALSE).status = 404
          /\ DeleteMessageWithApplication_Resolve(store, u, id, FALSE, FALSE)
               = DeleteMessageWithApplication_Resolve(store, u, MissingAppID,
                                                      FALSE, FALSE)
    /\ \A u \in Users : \A m \in {x \in store : OwnerOf(x) # u} :
          /\ DeleteMessage_Resolve(store, u, m.id, FALSE, FALSE).status = 404
          /\ DeleteMessage_Resolve(store, u, m.id, FALSE, FALSE)
               = DeleteMessage_Resolve(store, u, nextID, FALSE, FALSE)
    /\ (/\ client.route = "application"
        /\ client.status \notin {0, 400, 500}
        /\ client.id \in ForeignApps(client.userID))
       => <<client.status, client.error, client.page>>
            = Seen(GetMessagesWithApplication(store, client.userID, MissingAppID,
                                              client.query, FALSE, FALSE))
    /\ \A p \in Workers :
          /\ (/\ w[p].op = "deleteApp"
              /\ w[p].status # 500
              /\ w[p].id \in ForeignApps(w[p].userID))
             => /\ pc[p] = "idle"
                /\ <<w[p].status, w[p].error>>
                     = <<DeleteMessageWithApplication_Resolve(
                             store, w[p].userID, MissingAppID, FALSE, FALSE).status,
                         DeleteMessageWithApplication_Resolve(
                             store, w[p].userID, MissingAppID, FALSE, FALSE).error>>
          /\ (/\ w[p].op = "deleteOne"
              /\ w[p].status # 500
              /\ \E m \in w[p].snapshot : m.id = w[p].id /\ OwnerOf(m) # w[p].userID)
             => /\ pc[p] = "idle"
                /\ <<w[p].status, w[p].error>>
                     = <<DeleteMessage_Resolve(store, w[p].userID, nextID,
                                               FALSE, FALSE).status,
                         DeleteMessage_Resolve(store, w[p].userID, nextID,
                                               FALSE, FALSE).error>>

\* the client was refused the messages of another user's application, and
\* a worker was refused the deletion of another user's message
C5_Witness ==
    /\ client.route = "application"
    /\ client.status = 404
    /\ client.id \in ForeignApps(client.userID)
    /\ \E p \in Workers :
          /\ w[p].op = "deleteOne"
          /\ w[p].status = 404
          /\ \E m \in w[p].snapshot : m.id = w[p].id /\ OwnerOf(m) # w[p].userID

\* ------------------------------------------------------------------------
\* Properties of create and delete
\* ------------------------------------------------------------------------
DeleteOps == {"deleteAll", "deleteApp", "deleteOne"}

\* the Notify calls of a request
NotifiedBy(opid) ==
    {i \in 1..Len(notifications) : notifications[i].opid = opid}

\* C6: every created-message notification carries a message whose
\* DB.CreateMessage call succeeded; a create whose DB.CreateMessage call
\* failed ended with a storage error and notified nothing.
C6_NotifyOnlyPersisted ==
    /\ \A i \in 1..Len(notifications) :
          notifications[i].kind = "message"
              => /\ Len(notifications[i].messages) = 1
                 /\ notifications[i].messages[1] \in persisted
    /\ \A p \in Workers :
          (w[p].op = "create" /\ w[p].steps # <<>> /\ w[p].steps[1] = "persist_failed")
              => /\ pc[p] = "idle"
                 /\ w[p].status = 500
                 /\ w[p].error = StorageError
                 /\ NotifiedBy(w[p].opid) = {}
                 /\ w[p].message \notin persisted

\* a create failed in DB.CreateMessage while another create was notified
C6_Witness ==
    /\ \E p \in Workers :
          /\ w[p].op = "create"
          /\ w[p].steps = <<"persist_failed">>
          /\ w[p].status = 500
    /\ \E i \in 1..Len(notifications) : notifications[i].kind = "message"

\* C7: a create that has persisted its message has not notified yet; a
\* create that succeeded has persisted, then notified exactly once: the
\* stored message, to the owner of the application its token resolves to.
C7_CreateNotifiesOnce ==
    \A p \in Workers :
        w[p].op = "create" =>
            /\ pc[p] = "create_notify"
                  => /\ w[p].message \in persisted
                     /\ NotifiedBy(w[p].opid) = {}
            /\ w[p].status = 200
                  => /\ w[p].steps = <<"persist", "notify">>
                     /\ Cardinality(NotifiedBy(w[p].opid)) = 1
                     /\ \A i \in NotifiedBy(w[p].opid) :
                           /\ notifications[i].kind = "message"
                           /\ notifications[i].messages = <<w[p].message>>
                           /\ notifications[i].userID
                                = GetApplicationByToken(w[p].token).userID
                     /\ w[p].message \in persisted
                     /\ w[p].message.id # 0
                     /\ w[p].message.appid = GetApplicationByToken(w[p].token).id

\* a create with the token of user 2's application succeeded
C7_Witness ==
    \E p \in Workers :
        /\ w[p].op = "create"
        /\ w[p].status = 200
        /\ w[p].token = "tokC"
        /\ \E i \in NotifiedBy(w[p].opid) :
              notifications[i].userID = 2 /\ notifications[i].messages[1].id = w[p].message.id

\* C8: a delete-by-application that has notified has done so once, before
\* its delete call, with exactly the messages the application had when the
\* operation fetched them; a message created after the fetch is not listed.
C8_DeleteAppEventIsSnapshot ==
    \A p \in Workers :
        (w[p].op = "deleteApp" /\ Len(w[p].steps) >= 2) =>
            /\ SubSeq(w[p].steps, 1, 2) = <<"fetch", "notify">>
            /\ Cardinality(NotifiedBy(w[p].opid)) = 1
            /\ \A i \in NotifiedBy(w[p].opid) :
                  /\ notifications[i].kind = "deletions"
                  /\ Range(notifications[i].messages)
                       = {m \in w[p].snapshot : m.appid = w[p].id}
                  /\ Len(notifications[i].messages)
                       = Cardinality({m \in w[p].snapshot : m.appid = w[p].id})
                  /\ \A m \in persisted \ w[p].snapshot :
                        m \notin Range(notifications[i].messages)
            /\ pc[p] = "deleteApp_delete" => w[p].removed = {}

\* a delete-by-application has notified, and a message was created on its
\* application after it fetched
C8_Witness ==
    \E p \in Workers :
        /\ w[p].op = "deleteApp"
        /\ Len(w[p].steps) >= 2
        /\ w[p].messages # <<>>
        /\ \E m \in persisted \ w[p].snapshot : m.appid = w[p].id

\* C9 as claimed: the messages a delete operation's repository delete call
\* removed are the messages listed in the event it notified.
C9_RemovedIsEvent ==
    \A p \in Workers :
        (w[p].op \in DeleteOps /\ w[p].status = 200) =>
            \A i \in NotifiedBy(w[p].opid) :
                w[p].removed = Range(notifications[i].messages)

\* C10: a delete operation fetches, then notifies, then calls the
\* repository's delete, in this order and each once; delete-one's event is
\* the one message the ID resolved to.
C10_FetchNotifyDelete ==
    \A p \in Workers :
        w[p].op \in DeleteOps =>
            /\ w[p].steps \in { <<>>, <<"fetch">>, <<"fetch", "notify">>,
                                <<"fetch", "notify", "delete">>,
                                <<"fetch", "notify", "delete_failed">> }
            /\ Cardinality(NotifiedBy(w[p].opid))
                 = (IF Len(w[p].steps) >= 2 THEN 1 ELSE 0)
            /\ Len(w[p].steps) < 3 => w[p].removed = {}
            /\ (w[p].op = "deleteOne" /\ Len(w[p].steps) >= 2)
                  => \A i \in NotifiedBy(w[p].opid) :
                        /\ Len(notifications[i].messages) = 1
                        /\ notifications[i].messages[1].id = w[p].id
                        /\ notifications[i].messages[1] \in w[p].snapshot

\* a delete-one has fetched, notified and deleted its message
C10_Witness ==
    \E p \in Workers :
        /\ w[p].op = "deleteOne"
        /\ w[p].steps = <<"fetch", "notify", "delete">>
        /\ Cardinality(w[p].removed) = 1

\* ------------------------------------------------------------------------
\* Properties of the failure handling
\* ------------------------------------------------------------------------
\* the messages the reads of a delete request find in the repository
FetchedBy(r) ==
    IF r.op = "deleteAll" THEN {m \in r.snapshot : OwnerOf(m) = r.userID}
    ELSE IF r.op = "deleteApp" THEN {m \in r.snapshot : m.appid = r.id}
    ELSE {m \in r.snapshot : m.id = r.id}

\* the response to a storage error
Failed == [status |-> 500, error |-> StorageError, messages |-> <<>>]

\* a delete request that went past its reads holds what they return, a read
\* that fails gives the storage error, and a delete request that ended with
\* it has notified nothing and made no delete call
C11_ReadFailureState ==
    /\ \A u \in Users : \A id \in AppIDs : \A f \in BOOLEAN :
          /\ DeleteMessageWithApplication_Resolve(store, u, id, TRUE, f) = Failed
          /\ (GetApplicationByID(id).userID = u)
                => DeleteMessageWithApplication_Resolve(store, u, id, FALSE, TRUE)
                     = Failed
    /\ \A u \in Users : \A id \in 1..nextID : \A f \in BOOLEAN :
          /\ DeleteMessage_Resolve(store, u, id, TRUE, f) = Failed
          /\ (\E m \in store : m.id = id)
                => DeleteMessage_Resolve(store, u, id, FALSE, TRUE) = Failed
    /\ \A p \in Workers :
          w[p].op \in DeleteOps =>
              /\ (w[p].status = 500 /\ w[p].steps = <<>>)
                    => /\ pc[p] = "idle"
                       /\ w[p].error = StorageError
                       /\ w[p].messages = <<>>
                       /\ w[p].removed = {}
                       /\ NotifiedBy(w[p].opid) = {}
              /\ w[p].steps # <<>>
                    => /\ Range(w[p].messages) = FetchedBy(w[p])
                       /\ Len(w[p].messages) = Cardinality(FetchedBy(w[p]))

\* the step in which a delete request ends with the storage error of a read
\* changes neither the repository nor the notifications
C11_ReadFailureStep ==
    \A p \in Workers :
        (/\ w'[p] # w[p]
         /\ w'[p].op \in DeleteOps
         /\ w'[p].status = 500
         /\ w'[p].steps = <<>>)
            => /\ store' = store
               /\ notifications' = notifications
               /\ pc'[p] = "idle"

\* C11: when a repository read of a delete operation fails (the message,
\* its application, or the messages to delete), the operation ends with a
\* storage error, sends no notification, makes no delete call and leaves the
\* store as it is.
C11_ReadFailureAborts == []C11_ReadFailureState /\ [][C11_ReadFailureStep]_vars

\* a delete-by-application of the owner failed in a read while the
\* application had a message
C11_Witness ==
    \E p \in Workers :
        /\ w[p].op = "deleteApp"
        /\ w[p].status = 500
        /\ w[p].steps = <<>>
        /\ GetApplicationByID(w[p].id).userID = w[p].userID
        /\ \E m \in store : m.appid = w[p].id

\* a delete request whose delete call failed has the storage error, removed
\* nothing, and its one event is still among the notifications
C12_DeleteFailureState ==
    \A p \in Workers :
        (/\ w[p].op \in DeleteOps
         /\ Len(w[p].steps) = 3
         /\ w[p].steps[3] = "delete_failed")
            => /\ pc[p] = "idle"
               /\ w[p].status = 500
               /\ w[p].error = StorageError
               /\ w[p].removed = {}
               /\ Cardinality(NotifiedBy(w[p].opid)) = 1
               /\ \A i \in NotifiedBy(w[p].opid) :
                     /\ notifications[i].kind = "deletions"
                     /\ notifications[i].messages = w[p].messages

\* no notification is ever taken back or changed, and the step in which a
\* delete call fails adds none and removes no message
C12_DeleteFailureStep ==
    /\ Len(notifications') >= Len(notifications)
    /\ SubSeq(notifications', 1, Len(notifications)) = notifications
    /\ \A p \in Workers :
          (/\ w'[p] # w[p]
           /\ w'[p].op \in DeleteOps
           /\ Len(w'[p].steps) = 3
           /\ w'[p].steps[3] = "delete_failed")
              => /\ notifications' = notifications
                 /\ store' = store
                 /\ \A m \in Range(w[p].messages) : m \in store => m \in store'

\* C12: when the delete call of a delete operation fails after the
\* notification was sent, the operation ends with a storage error, the event
\* stays delivered as it was, nothing is sent to make up for it, and the
\* failed call removes none of the messages the event lists.
C12_DeleteFailureKeeps == []C12_DeleteFailureState /\ [][C12_DeleteFailureStep]_vars

\* a delete call failed after its event, and the messages listed are there
C12_Witness ==
    \E p \in Workers :
        /\ w[p].op \in DeleteOps
        /\ w[p].steps = <<"fetch", "notify", "delete_failed">>
        /\ w[p].messages # <<>>
        /\ Range(w[p].messages) \subseteq store

\* ------------------------------------------------------------------------
\* Properties of the validation and of the authorization frame
\* ------------------------------------------------------------------------
\* the value of a key of the client's query, as the number it reads as
\* (none: the key is absent or its value is no number)
Given(key) ==
    IF HasKey(client.query, key) THEN ParseInt(QueryGet(client.query, key))
    ELSE [ok |-> FALSE, value |-> 0]

\* the client's query has a limit below 1 or above 200, or a negative since
OutOfRange ==
    \/ Given("limit").ok /\ (Given("limit").value < 1 \/ Given("limit").value > 200)
    \/ Given("since").ok /\ Given("since").value < 0

\* C13: a list request with limit below 1 or above 200, or with a negative
\* since, is answered as malformed (400) before any repository call: whatever
\* the application lookup or the message query would have returned; a
\* request without limit is served with limit 100 and one without since
\* from the newest message (since 0).
C13_ValidatedFirst ==
    client.status # 0 =>
        /\ OutOfRange
              => /\ client.status = 400
                 /\ ~client.queried
                 /\ client.rows = <<>>
                 /\ client.page = NoPage
                 /\ \A f \in ListFailures : \A id \in AppIDs :
                       /\ GetMessagesWithApplication(store, client.userID, id,
                              client.query, f[1], f[2]).status = 400
                       /\ GetMessages(store, client.userID, client.query, f[2]).status
                            = 400
        /\ (client.queried /\ ~HasKey(client.query, "limit"))
              => /\ Params.Limit = 100
                 /\ client.page.paging.limit = 100
                 /\ client.rows
                      = SubSeq(Older(store, Params.Since), 1,
                               Min(101, Len(Older(store, Params.Since))))
        /\ (client.queried /\ ~HasKey(client.query, "since"))
              => /\ Params.Since = 0
                 /\ client.rows
                      = SubSeq(SortDesc(Scope(store)), 1,
                               Min(Params.Limit + 1, Cardinality(Scope(store))))

\* a request with limit 201 for the messages of another user's application
\* was rejected as malformed
C13_Witness ==
    /\ client.route = "application"
    /\ client.id \in ForeignApps(client.userID)
    /\ HasKey(client.query, "limit")
    /\ QueryGet(client.query, "limit") = <<"2", "0", "1">>
    /\ client.status = 400

\* a delete request refused by the authorization check has no step, event or
\* removed message, and a list request refused by it has no page or row
C14_RefusedState ==
    /\ \A p \in Workers :
          (w[p].op \in {"deleteApp", "deleteOne"} /\ w[p].status = 404)
              => /\ pc[p] = "idle"
                 /\ w[p].steps = <<>>
                 /\ w[p].messages = <<>>
                 /\ w[p].removed = {}
                 /\ NotifiedBy(w[p].opid) = {}
    /\ (client.route = "application" /\ client.status = 404)
          => /\ ~client.queried
             /\ client.rows = <<>>
             /\ client.page = NoPage

\* the step in which a request is refused changes nothing but the response
C14_RefusedStep ==
    /\ \A p \in Workers :
          (/\ w'[p] # w[p]
           /\ w'[p].op \in {"deleteApp", "deleteOne"}
           /\ w'[p].status = 404)
              => UNCHANGED <<store, nextID, notifications, persisted, client>>
    /\ (client' # client /\ client'.status = 404)
          => UNCHANGED <<store, nextID, notifications, persisted, w, pc>>

\* C14: when the authorization check of delete-one, delete-by-application or
\* list-by-application fails (the target is missing or belongs to another
\* user), the operation sends no notification, makes no delete or create
\* call and leaves the store as it is.
C14_RefusedNoEffect == []C14_RefusedState /\ [][C14_RefusedStep]_vars

\* a delete-by-application was refused for another user's application that
\* has a message, and a list-by-application for an application that is missing
C14_Witness ==
    /\ \E p \in Workers :
          /\ w[p].op = "deleteApp"
          /\ w[p].status = 404
          /\ w[p].id \in ForeignApps(w[p].userID)
          /\ \E m \in store : m.appid = w[p].id
    /\ client.route = "application"
    /\ client.status = 404
    /\ client.id = MissingAppID

\* ------------------------------------------------------------------------
\* Properties of create
\* ------------------------------------------------------------------------
\* C15 as claimed: a create request whose authentication token resolves to
\* no application fails as unauthorized; no message is persisted and no
\* notification is sent.
C15_BadTokenUnauthorized ==
    /\ \A p \in Workers :
          (w[p].op = "create" /\ GetApplicationByToken(w[p].token) = NilApp)
              => /\ pc[p] = "idle"
                 /\ w[p].status = 401
                 /\ w[p].steps = <<>>
                 /\ w[p].message = NilMsg
                 /\ NotifiedBy(w[p].opid) = {}
    /\ \A m \in persisted \cup store : GetApplicationByID(m.appid) # NilApp

\* the title is empty or white space only
Blank(title) == \A i \in 1..Len(title) : IsSpace(title[i])

\* the title a create request's message is to have
TitleFor(r) ==
    IF Blank(r.title) THEN GetApplicationByToken(r.token).name ELSE r.title

\* C16: the message a create stored, and then notified and returned, has
\* the application's name as its title when the requested title is empty or
\* white space only, and the requested title as it was given otherwise.
C16_TitleDefault ==
    \A p \in Workers :
        (w[p].op = "create" /\ w[p].steps # <<>> /\ w[p].steps[1] = "persist") =>
            /\ w[p].message.title = TitleFor(w[p])
            /\ w[p].message \in persisted
            /\ \E m \in store : m.id = w[p].message.id /\ m.title = TitleFor(w[p])
            /\ \A i \in NotifiedBy(w[p].opid) :
                  notifications[i].messages[1].title = TitleFor(w[p])
            /\ w[p].status = 200
                  => /\ NotifiedBy(w[p].opid) # {}
                     /\ w[p].message.appid = GetApplicationByToken(w[p].token).id

\* a create with a white-space title got the application's name, after a
\* create whose title with a leading space was stored as given
C16_Witness ==
    \E p \in Workers :
        /\ w[p].op = "create"
        /\ w[p].status = 200
        /\ w[p].title = <<"\t", " ">>
        /\ w[p].token = "tokB"
        /\ w[p].message.title = <<"B">>
        /\ \E m \in persisted : m.title = <<" ", "S">>

\* ------------------------------------------------------------------------
\* Properties of the notifier's failures
\* ------------------------------------------------------------------------
DeleteLabel(op) ==
    IF op = "deleteAll" THEN "deleteAll_delete"
    ELSE IF op = "deleteApp" THEN "deleteApp_delete"
    ELSE "deleteOne_delete"

\* a create that notified has succeeded with the stored message, which is
\* in the store; a delete that notified is at its delete call or past it
C17_NotifiedState ==
    \A p \in Workers :
        /\ (w[p].op = "create" /\ NotifiedBy(w[p].opid) # {})
              => /\ w[p].status = 200
                 /\ w[p].error = ""
                 /\ w[p].message \in persisted
                 /\ w[p].message \in store
        /\ (w[p].op \in DeleteOps /\ NotifiedBy(w[p].opid) # {})
              => \/ Len(w[p].steps) = 2 /\ pc[p] = DeleteLabel(w[p].op)
                 \/ /\ Len(w[p].steps) = 3
                    /\ w[p].steps[3] \in {"delete", "delete_failed"}
                    /\ w[p].status = (IF w[p].steps[3] = "delete" THEN 200 ELSE 500)

\* a Notify call, delivered or not, changes nothing in the repository
C17_NotifyStep ==
    Len(notifications') > Len(notifications)
        => UNCHANGED <<store, persisted, nextID>>

\* C17: whether or not the notifier delivers an event, a create whose
\* persist succeeded returns the stored message and keeps it in the store,
\* and a delete goes on to its repository delete call.
C17_DeliveryIgnored == []C17_NotifiedState /\ [][C17_NotifyStep]_vars

\* a create succeeded though its notification was not delivered, after a
\* delete removed the messages of an event that was not delivered
C17_Witness ==
    /\ \E p \in Workers :
          /\ w[p].op = "create"
          /\ w[p].status = 200
          /\ w[p].message \in store
          /\ \E i \in NotifiedBy(w[p].opid) : ~notifications[i].delivered
    /\ \E i \in 1..Len(notifications) :
          /\ notifications[i].kind = "deletions"
          /\ ~notifications[i].delivered
          /\ notifications[i].messages # <<>>
          /\ Range(notifications[i].messages) \cap store = {}

\* ------------------------------------------------------------------------
\* Properties of a cursor traversal
\* ------------------------------------------------------------------------
\* the paging parameters of the traversal's first request
FirstParams == withPaging(client.first)

\* the client holds a page of a traversal that started at since = 0
FromNewest ==
    /\ client.pages > 0
    /\ client.status = 200
    /\ FirstParams.Since = 0

\* the page the client holds is the last of its traversal
LastPage == client.page.paging.next = NoNext

\* C18: on a store that does not change, the pages of a traversal that
\* started at since = 0 and follows the next URLs keep the limit of the
\* first request and hold, page after page, the messages of the scope in
\* descending order of ID, each once; the row dropped from a page is the
\* first of the next; there is a next URL exactly while messages are left,
\* so the traversal ends within ceil(n / limit) requests (one for n = 0)
\* with every message of the scope returned.
C18_TraversalComplete ==
    FromNewest =>
        LET all == IDs(SortDesc(Scope(store)))
            n == Len(all)
            L == FirstParams.Limit
        IN /\ Params.Limit = L
           /\ client.seen = SubSeq(all, 1, Min(client.pages * L, n))
           /\ \A i, j \in 1..Len(client.seen) :
                 i < j => client.seen[i] > client.seen[j]
           /\ ~LastPage <=> client.pages * L < n
           /\ client.pages = 1 \/ (client.pages - 1) * L < n
           /\ client.followed
                 => /\ Len(client.prevrows) = L + 1
                    /\ Len(client.page.messages) > 0
                    /\ client.page.messages[1].id = client.prevrows[L + 1].id
           /\ LastPage
                 => /\ Range(client.seen) = {m.id : m \in Scope(store)}
                    /\ Len(client.seen) = Cardinality(Scope(store))

\* the third and last page of a traversal with limit 2 over the five
\* messages of a user
C18_Witness ==
    /\ FromNewest
    /\ client.route = "message"
    /\ FirstParams.Limit = 2
    /\ client.pages = 3
    /\ LastPage
    /\ Len(client.seen) = 5
    /\ Len(client.page.messages) = 1

\* C20: with creates and deletes between the page requests of a traversal
\* that started at since = 0, every ID issued is above all IDs issued
\* before, the traversal returns its messages in strictly descending order
\* of ID, so none twice, all of them out of its scope, and, once its last
\* page is there, every message that was in the scope at the first request
\* and is still stored has been returned.
C20_TraversalUnderUpdates ==
    /\ \A m \in store \cup persisted \cup client.scope0 : m.id < nextID
    /\ \A m \in persisted : \A o \in store \cup persisted :
          (o.id = m.id) => (o = m)
    /\ FromNewest =>
          /\ \A i, j \in 1..Len(client.seen) :
                i < j => client.seen[i] > client.seen[j]
          /\ \A i \in 1..Len(client.seen) :
                \E m \in client.scope0 : m.id = client.seen[i]
          /\ LastPage
                => \A m \in client.scope0 \cap store : m.id \in Range(client.seen)

\* a traversal of two pages has ended; a message was created in its scope
\* after the first page and is not among the messages returned
C20_Witness ==
    /\ FromNewest
    /\ client.followed
    /\ LastPage
    /\ Len(client.seen) = 2
    /\ \E m \in Scope(store) \ client.scope0 : m.id > client.seen[1]

\* ------------------------------------------------------------------------
\* Properties of the ownership of what is deleted
\* ------------------------------------------------------------------------
\* what a request removed, and the events notified, are messages of the
\* acting user, and an event goes to that user
C19_OwnState ==
    /\ \A p \in Workers :
          /\ \A m \in w[p].removed : OwnerOf(m) = w[p].userID
          /\ \A m \in Range(w[p].messages) : OwnerOf(m) = w[p].userID
          /\ \A i \in NotifiedBy(w[p].opid) :
                w[p].op \in DeleteOps => notifications[i].userID = w[p].userID
    /\ \A i \in 1..Len(notifications) :
          notifications[i].kind = "deletions"
              => \A m \in Range(notifications[i].messages) :
                    OwnerOf(m) = notifications[i].userID

\* a message leaves the store only in a step of a request of its owner
C19_OwnStep ==
    \A m \in store \ store' :
        \E p \in Workers :
            /\ w'[p] # w[p]
            /\ w[p].op \in DeleteOps
            /\ w[p].userID = OwnerOf(m)

\* C19: under any interleaving of the requests of any users, a request of
\* user U removes from the store, and lists in a DeletionEvent, only
\* messages of applications of U, and every DeletionEvent is notified to
\* the owner of the messages it lists.
C19_OnlyOwnMessages == []C19_OwnState /\ [][C19_OwnStep]_vars

\* a delete-all of a user removed that user's messages while a message of
\* the other user is in the store
C19_Witness ==
    \E p \in Workers :
        /\ w[p].op = "deleteAll"
        /\ w[p].status = 200
        /\ w[p].removed # {}
        /\ \E m \in store : OwnerOf(m) # w[p].userID

====
